---- MODULE Spec2Model ----
(***************************************************************************)
(* Scheduled send for Frappe Mail (mail_scheduler): the Mail Queue records *)
(* with their scheduled_at / submission_id custom fields, the JMAP server's*)
(* EmailSubmission objects, and the whitelisted API handlers that create,  *)
(* cancel and reschedule a held message, together with the periodic status *)
(* check.  Each handler is one action.  The host mail app (MailQueue,      *)
(* JMAPClient) and the JMAP server are the environment: where the source   *)
(* only calls them, their outcome is a nondeterministic choice.            *)
(***************************************************************************)
EXTENDS Integers, Sequences, FiniteSets, TLC

VARIABLES
    now,      \* now_datetime(), in seconds
    queue,    \* the Mail Queue table: record name -> document
    subs,     \* the server's EmailSubmission objects, by submission id
    flag,     \* frappe.flags.mail_scheduler_scheduled_at
    last,     \* what the most recent handler call did and returned
    probe,    \* argument and result of the last pure-function evaluation
    inflight, \* the requests in progress, when requests run side by side
    patch     \* the module state of monkey_patches and JMAPClient.email_create

vars == <<now, queue, subs, flag, last, probe, inflight, patch>>

----------------------------------------------------------------------------
(* Program constants *)

MIN_SCHEDULE_MINUTES == 1
MAX_SCHEDULE_DAYS == 30
STALWART_MAX_DELAYED_SEND == 2592000
CANCEL_GRACE_SECONDS == 30

MinLeadSeconds == MIN_SCHEDULE_MINUTES * 60
MaxHorizonSeconds == MAX_SCHEDULE_DAYS * 86400

(* Bounds of the model *)

MaxRecords == 1
MaxSubs == 2
MaxNow == 120
MaxProbeNow == 10
MaxBatch == 3

----------------------------------------------------------------------------
(* Values *)

None == -1                       \* Python None for a datetime
NoId == 0                        \* Python None for an id

Users == {"alice", "bob"}
SystemManagers == {"admin"}
Callers == Users \cup SystemManagers

RecIds == 1..MaxRecords

\* A scheduled_at argument as the caller sends it: a string that is empty,
\* that does not parse, or that denotes the instant t.
EmptyIn == [kind |-> "empty", t |-> 0]
BadIn == [kind |-> "bad", t |-> 0]
At(t) == [kind |-> "at", t |-> t]

\* frappe.utils.get_datetime on such a string: None for the empty string,
\* the instant for a parsable one (an unparsable one raises, see Raises).
get_datetime(s) == IF s.kind = "at" THEN s.t ELSE None
Raises(s) == s.kind = "bad"

NoDoc ==
    [user |-> "", status |-> "None", scheduled_at |-> None,
     submission_id |-> NoId, id |-> NoId, error_message |-> ""]

NoLast ==
    [op |-> "none", rec |-> 0, result |-> "", pre |-> NoDoc,
     req |-> None, rpcs |-> {}, path |-> "none", made |-> 0,
     sched_failed |-> FALSE, reported |-> "", jmap_cancelled |-> FALSE,
     cancel_raised |-> FALSE, polled |-> {}, failed |-> {},
     before |-> <<>>, seen |-> <<>>, logs |-> {}, partial |-> {},
     given |-> None]

NoProbe == [fn |-> "none", arg |-> EmptyIn, at |-> 0, out |-> ""]

\* The web and scheduler workers of the site, each serving one request at a
\* time; in the specifications of whole handlers none is ever busy.
Workers == {"w1", "w2"}
Idle == [op |-> "idle", pc |-> "idle", caller |-> "", recs |-> {},
         doc |-> NoDoc, raised |-> FALSE, seen |-> <<>>]
NoRequests == [w \in Workers |-> Idle]

\* monkey_patches as imported: _patch_lock free, _patch_applied False,
\* _original_email_create None; JMAPClient.email_create is the host's method.
\* email_create counts the wrappers around the host's method:
\* 0 is the host's method itself; original holds such a value or None.
NoPatch == [lock |-> "", applied |-> FALSE, original |-> None,
            email_create |-> 0, ret |-> [w \in Workers |-> "none"]]

----------------------------------------------------------------------------
(* Schedule policy *)

\* A variant that rejects the two end points of the interval.
_validate_schedule_time_open(scheduled_at, n) ==
    IF scheduled_at.kind = "empty" THEN "ok"
    ELSE IF Raises(scheduled_at) THEN "InvalidFormat"
    ELSE IF get_datetime(scheduled_at) <= n + MinLeadSeconds THEN "TooSoon"
    ELSE IF get_datetime(scheduled_at) >= n + MaxHorizonSeconds THEN "TooFar"
    ELSE "ok"

_validate_schedule_time(scheduled_at, n) ==
    IF scheduled_at.kind = "empty" THEN "ok"
    ELSE IF Raises(scheduled_at) THEN "InvalidFormat"
    ELSE IF get_datetime(scheduled_at) < n + MinLeadSeconds THEN "TooSoon"
    ELSE IF get_datetime(scheduled_at) > n + MaxHorizonSeconds THEN "TooFar"
    ELSE "ok"

PolicyErrors == {"InvalidFormat", "TooSoon", "TooFar"}

get_max_schedule_seconds == STALWART_MAX_DELAYED_SEND

\* The Mail Queue validate hook: TRUE when it lets the document through.
validate(doc, n) ==
    \/ doc.scheduled_at = None
    \/ /\ doc.scheduled_at > n
       /\ doc.scheduled_at <= n + get_max_schedule_seconds

\* The Mail Queue before_insert hook.
before_insert(doc, f) ==
    IF f # None THEN [doc EXCEPT !.scheduled_at = f] ELSE doc

----------------------------------------------------------------------------
(* The JMAP server and the client calls made on it *)

\* What a handler passes where a JMAP client is expected: a client object
\* (get_jmap_client(user)) or, as the cancel call sites do, a user name.
JMAPClient(u) == [kind |-> "client", user |-> u]
UserName(u) == [kind |-> "str", user |-> u]

\* Outcomes the environment chooses for one handler call:
\*   sched  the scheduled create-and-submit: it succeeds, raises before the
\*          request reaches the server, or raises after the server ran it
\*   orig   the host's own email_create: it succeeds or raises
\*   host   the status the host gives a message the server accepted
\*   stored whether the host stores the response's submission id
Outcomes ==
    [sched : {"ok", "fail_before", "fail_after"}, orig : {"ok", "fail"},
     host : {"Submitted", "Queued"}, stored : BOOLEAN]

\* A datetime as get_datetime returns it for a caller's string: wall-clock
\* seconds, whether a fraction of a second follows, and either no zone
\* (naive) or the offset from UTC the string carried.
Naive(wall, frac) == [wall |-> wall, frac |-> frac, aware |-> FALSE, off |-> 0]
Aware(wall, frac, off) ==
    [wall |-> wall, frac |-> frac, aware |-> TRUE, off |-> off]

\* datetime.timestamp(): epoch seconds (sec plus a fraction when frac).  A
\* naive datetime is read in the zone of the server process, os_off.
timestamp(dt, os_off) ==
    [sec |-> dt.wall - (IF dt.aware THEN dt.off ELSE os_off),
     frac |-> dt.frac]

\* int(x) of a float: truncation toward zero.
int(x) == IF x.sec >= 0 \/ ~x.frac THEN x.sec ELSE x.sec + 1

\* str(int(scheduled_datetime.timestamp())): the HOLDUNTIL wire value.
hold_until(dt, os_off) == int(timestamp(dt, os_off))

\* int(schedule_dt.timestamp()) where the handlers run: the instants of the
\* handlers' specification are whole seconds on one clock, that of a server
\* whose process zone is UTC.
holduntil(schedule_dt) == hold_until(Naive(schedule_dt, FALSE), 0)

\* The host's JMAPClient.email_create: a draft is stored without a
\* submission; anything else is submitted with no hold and leaves at once.
_original_email_create(ss, creation_id, save_as_draft, o) ==
    IF o.orig = "fail"
    THEN [subs |-> ss, raised |-> TRUE, sid |-> NoId, made |-> 0]
    ELSE IF save_as_draft
    THEN [subs |-> ss, raised |-> FALSE, sid |-> NoId, made |-> 0]
    ELSE [subs |-> Append(ss, [msg |-> creation_id, hold |-> None,
                               undo |-> "final"]),
          raised |-> FALSE, sid |-> Len(ss) + 1, made |-> 1]

\* Email/set create + EmailSubmission/set create with HOLDUNTIL, one request.
_email_create_with_schedule(ss, creation_id, scheduled_at, o) ==
    LET held == Append(ss, [msg |-> creation_id,
                            hold |-> holduntil(scheduled_at),
                            undo |-> "pending"])
    IN  CASE o.sched = "ok" ->
                [subs |-> held, raised |-> FALSE, sid |-> Len(ss) + 1,
                 made |-> 1]
          [] o.sched = "fail_after" ->
                [subs |-> held, raised |-> TRUE, sid |-> NoId, made |-> 1]
          [] OTHER ->
                [subs |-> ss, raised |-> TRUE, sid |-> NoId, made |-> 0]

patched_email_create(ss, creation_id, f, save_as_draft, n, o) ==
    IF f = None \/ save_as_draft
    THEN [path |-> "original", sched_failed |-> FALSE]
         @@ _original_email_create(ss, creation_id, save_as_draft, o)
    ELSE IF f <= n
    THEN [path |-> "immediate", sched_failed |-> FALSE]
         @@ _original_email_create(ss, creation_id, save_as_draft, o)
    ELSE LET r == _email_create_with_schedule(ss, creation_id, f, o)
         IN  IF r.raised
             THEN LET b == _original_email_create(r.subs, creation_id,
                                                  save_as_draft, o)
                  IN  [path |-> "fallback", sched_failed |-> TRUE,
                       subs |-> b.subs, raised |-> b.raised,
                       sid |-> b.sid, made |-> r.made + b.made]
             ELSE [path |-> "scheduled", sched_failed |-> FALSE] @@ r

\* EmailSubmission/set update undoStatus = canceled.  The request is made
\* through client._make_request, which only a client object has.
\* A variant that returns quietly when it has no client to send through.
email_submission_cancel_quiet(client, submission_id, ss) ==
    IF client.kind # "client"
    THEN [subs |-> ss, raised |-> FALSE, sent |-> FALSE]
    ELSE [subs |-> [i \in DOMAIN ss |->
                      IF i = submission_id /\ ss[i].undo = "pending"
                      THEN [ss[i] EXCEPT !.undo = "canceled"] ELSE ss[i]],
          raised |-> FALSE, sent |-> TRUE]

email_submission_cancel(client, submission_id, ss) ==
    IF client.kind # "client"
    THEN [subs |-> ss, raised |-> TRUE, sent |-> FALSE]
    ELSE [subs |-> [i \in DOMAIN ss |->
                      IF i = submission_id /\ ss[i].undo = "pending"
                      THEN [ss[i] EXCEPT !.undo = "canceled"] ELSE ss[i]],
          raised |-> FALSE, sent |-> TRUE]

\* EmailSubmission/set update of HOLDUNTIL.  No handler calls it.
email_submission_update_schedule(client, submission_id, scheduled_at, ss) ==
    IF client.kind # "client"
    THEN [subs |-> ss, raised |-> TRUE, sent |-> FALSE]
    ELSE [subs |-> [i \in DOMAIN ss |->
                      IF i = submission_id /\ ss[i].undo = "pending"
                      THEN [ss[i] EXCEPT !.hold = holduntil(scheduled_at)]
                      ELSE ss[i]],
          raised |-> FALSE, sent |-> TRUE]

\* EmailSubmission/get: the submissions the server still has among ids.
email_submission_get(ss, ids) ==
    {i \in ids : i \in DOMAIN ss /\ ss[i].undo # "gone"}

----------------------------------------------------------------------------
(* The host's Mail Queue, as the handlers use it *)

\* doc._process(): submit through client.email_create and store the outcome.
MailQueue_process(doc, name, f, save_as_draft, ss, n, o) ==
    LET r == patched_email_create(ss, name, f, save_as_draft, n, o)
    IN  [res |-> r,
         doc |-> IF r.raised
                 THEN [doc EXCEPT !.status = "Failed",
                                  !.error_message = "error"]
                 ELSE [doc EXCEPT
                         !.status = IF save_as_draft THEN "Draft" ELSE o.host,
                         !.id = r.sid,
                         !.submission_id =
                             IF o.stored /\ r.sid # NoId THEN r.sid ELSE @,
                         !.error_message = ""]]

\* MailQueue._create(): insert (before_insert and validate hooks run), then
\* process.  ok is FALSE when the validate hook throws.
MailQueue_create(user, name, f, save_as_draft, ss, n, o) ==
    LET doc == before_insert([NoDoc EXCEPT !.user = user,
                                          !.status = "Draft"], f)
    IN  IF ~validate(doc, n)
        THEN [ok |-> FALSE, doc |-> NoDoc, res |-> [subs |-> ss]]
        ELSE [ok |-> TRUE]
             @@ MailQueue_process(doc, name, f, save_as_draft, ss, n, o)

FreeIds == {r \in RecIds : queue[r].status = "None"}
NewName == CHOOSE r \in FreeIds : \A q \in FreeIds : r <= q

----------------------------------------------------------------------------
(* create_mail *)

\* A variant that ignores whether the mail is to be submitted.
is_scheduled_any(scheduled_at, submit) == scheduled_at.kind # "empty"

\* is_scheduled = bool(scheduled_at and not save_as_draft) in create_mail,
\* bool(scheduled_at and submit) in update_draft_mail.
is_scheduled(scheduled_at, submit) == scheduled_at.kind # "empty" /\ submit

\* A variant that leaves the flag as it is.
flags_keep(fl) == fl

\* frappe.flags.pop("mail_scheduler_scheduled_at", None) in the finally
\* block: the value of the flag afterwards.
flags_pop(fl) == None

\* A variant that inserts the Mail Queue document before it validates.
create_mail_rejected_after_insert(caller, v) ==
    /\ FreeIds # {}
    /\ queue' = [queue EXCEPT ![NewName] =
                   [NoDoc EXCEPT !.user = caller, !.status = "Draft"]]
    /\ last' = [NoLast EXCEPT !.op = "create_mail", !.result = v]
    /\ UNCHANGED <<now, subs, flag, probe, inflight, patch>>

\* _validate_schedule_time raises: create_mail ends before MailQueue._create.
create_mail_rejected(caller, v) ==
    /\ last' = [NoLast EXCEPT !.op = "create_mail", !.result = v]
    /\ UNCHANGED <<now, queue, subs, flag, probe, inflight, patch>>

create_mail(caller, scheduled_at, save_as_draft, o) ==
    LET scheduled == is_scheduled(scheduled_at, ~save_as_draft)
        v == IF scheduled
             THEN _validate_schedule_time(scheduled_at, now) ELSE "ok"
        f == IF scheduled THEN get_datetime(scheduled_at) ELSE flag
    IN  IF v # "ok"
        THEN create_mail_rejected(caller, v)
        ELSE /\ FreeIds # {}
             /\ LET c == MailQueue_create(caller, NewName, f, save_as_draft,
                                          subs, now, o)
                IN  /\ Len(c.res.subs) <= MaxSubs
                    /\ IF ~c.ok
                       THEN /\ last' = [NoLast EXCEPT
                                          !.op = "create_mail",
                                          !.result = "HookRejected"]
                            /\ UNCHANGED <<queue, subs>>
                       ELSE /\ queue' = [queue EXCEPT ![NewName] = c.doc]
                            /\ subs' = c.res.subs
                            /\ last' = [NoLast EXCEPT
                                 !.op = "create_mail",
                                 !.rec = NewName, !.result = "ok",
                                 !.req = IF scheduled THEN f ELSE None,
                                 !.rpcs = {"create"},
                                 !.path = c.res.path,
                                 !.made = c.res.made,
                                 !.sched_failed = c.res.sched_failed,
                                 !.reported =
                                    IF /\ scheduled
                                       /\ c.doc.status = "Submitted"
                                    THEN "Scheduled" ELSE c.doc.status]
             /\ flag' = flags_pop(f)
             /\ UNCHANGED <<now, probe, inflight, patch>>

----------------------------------------------------------------------------
(* update_draft_mail: the draft is a Mail Message of the host; doc.submit() *)
(* and doc.save_draft() hand it to the Mail Queue, which inserts and        *)
(* processes a record as for a new mail                                     *)

update_draft_mail(caller, found, scheduled_at, submit, o) ==
    LET scheduled == is_scheduled(scheduled_at, submit)
        v == IF scheduled
             THEN _validate_schedule_time(scheduled_at, now)
             ELSE IF ~found THEN "NotFound" ELSE "ok"
        r == IF v = "ok" /\ ~found THEN "NotFound" ELSE v
        f == IF scheduled THEN get_datetime(scheduled_at) ELSE flag
    IN  IF r # "ok"
        THEN /\ last' = [NoLast EXCEPT !.op = "update_draft_mail",
                                       !.result = r]
             /\ UNCHANGED <<now, queue, subs, flag, probe, inflight, patch>>
        ELSE /\ FreeIds # {}
             /\ LET c == MailQueue_create(caller, NewName, f, ~submit,
                                          subs, now, o)
                IN  /\ Len(c.res.subs) <= MaxSubs
                    /\ IF ~c.ok
                       THEN /\ last' = [NoLast EXCEPT
                                          !.op = "update_draft_mail",
                                          !.result = "HookRejected"]
                            /\ UNCHANGED <<queue, subs>>
                       ELSE /\ queue' = [queue EXCEPT ![NewName] = c.doc]
                            /\ subs' = c.res.subs
                            /\ last' = [NoLast EXCEPT
                                 !.op = "update_draft_mail",
                                 !.rec = NewName, !.result = "ok",
                                 !.req = IF scheduled THEN f ELSE None,
                                 !.given = get_datetime(scheduled_at),
                                 !.rpcs = {"create"},
                                 !.path = c.res.path,
                                 !.made = c.res.made,
                                 !.sched_failed = c.res.sched_failed,
                                 !.reported =
                                    IF /\ scheduled
                                       /\ c.doc.status = "Submitted"
                                    THEN "Scheduled" ELSE c.doc.status]
             /\ flag' = flags_pop(f)
             /\ UNCHANGED <<now, probe, inflight, patch>>

----------------------------------------------------------------------------
(* cancel_scheduled_mail (api/mail.py) *)

NoCancel(ss) == [subs |-> ss, raised |-> FALSE, sent |-> FALSE]

\* A variant without the already-sent check.
cancel_mail_checks_no_sent(doc, caller, n) ==
    IF doc.status = "None" THEN "NotFound"
    ELSE IF doc.user # caller /\ caller \notin SystemManagers
    THEN "PermissionDenied"
    ELSE IF doc.scheduled_at = None THEN "NotScheduled"
    ELSE IF doc.scheduled_at <= n THEN "PastDue"
    ELSE "ok"

cancel_mail_checks(doc, caller, n) ==
    IF doc.status = "None" THEN "NotFound"
    ELSE IF doc.user # caller /\ caller \notin SystemManagers
    THEN "PermissionDenied"
    ELSE IF doc.scheduled_at = None THEN "NotScheduled"
    ELSE IF doc.status \in {"Sent", "Delivered"} THEN "AlreadySent"
    ELSE IF doc.scheduled_at <= n THEN "PastDue"
    ELSE "ok"

\* doc.db_set({...}) at the end of cancel_scheduled_mail.
cancel_mail_db_set(doc) ==
    [doc EXCEPT !.status = "Cancelled", !.scheduled_at = None,
                !.submission_id = NoId,
                !.error_message = "Cancelled by user"]

cancel_scheduled_mail(caller, r) ==
    LET doc == queue[r]
        c == cancel_mail_checks(doc, caller, now)
        x == IF doc.submission_id # NoId
             THEN email_submission_cancel(UserName(doc.user),
                                          doc.submission_id, subs)
             ELSE NoCancel(subs)
    IN  /\ IF c # "ok"
           THEN /\ last' = [NoLast EXCEPT
                              !.op = "cancel_scheduled_mail", !.rec = r,
                              !.result = c, !.pre = doc]
                /\ UNCHANGED <<queue, subs>>
           ELSE /\ queue' = [queue EXCEPT ![r] = cancel_mail_db_set(doc)]
                /\ subs' = x.subs
                /\ last' = [NoLast EXCEPT
                              !.op = "cancel_scheduled_mail", !.rec = r,
                              !.result = "ok",
                              !.pre = doc,
                              !.rpcs = IF x.sent THEN {"cancel"} ELSE {},
                              !.jmap_cancelled =
                                  doc.submission_id # NoId /\ ~x.raised,
                              !.cancel_raised = x.raised]
        /\ UNCHANGED <<now, flag, probe, inflight, patch>>

----------------------------------------------------------------------------
(* cancel_scheduled_email (api/scheduled.py) *)

cancel_email_checks(doc, caller, n) ==
    IF doc.status = "None" \/ doc.user # caller THEN "NotFound"
    ELSE IF doc.scheduled_at = None THEN "NotScheduled"
    ELSE IF doc.status \in {"Sent", "Delivered"} THEN "AlreadySent"
    ELSE IF doc.status = "Cancelled" THEN "AlreadyCancelled"
    ELSE IF /\ doc.scheduled_at <= n
            /\ n - doc.scheduled_at > CANCEL_GRACE_SECONDS
    THEN "PastDue"
    ELSE "ok"

\* A variant that records the cancellation only when the server confirmed it.
cancel_email_set_value_if_confirmed(doc, jmap_error) ==
    IF jmap_error
    THEN [doc EXCEPT !.error_message = "Cancelled by user (JMAP)"]
    ELSE [doc EXCEPT !.status = "Cancelled",
                     !.error_message = "Cancelled by user"]

\* frappe.db.set_value(...) at the end of cancel_scheduled_email.
cancel_email_set_value(doc, jmap_error) ==
    [doc EXCEPT !.status = "Cancelled",
                !.error_message = IF jmap_error
                                  THEN "Cancelled by user (JMAP)"
                                  ELSE "Cancelled by user"]

cancel_scheduled_email(caller, r) ==
    LET doc == queue[r]
        c == cancel_email_checks(doc, caller, now)
        x == IF doc.submission_id # NoId
             THEN email_submission_cancel(UserName(caller), doc.id, subs)
             ELSE NoCancel(subs)
    IN  /\ IF c # "ok"
           THEN /\ last' = [NoLast EXCEPT
                              !.op = "cancel_scheduled_email", !.rec = r,
                              !.result = c, !.pre = doc]
                /\ UNCHANGED <<queue, subs>>
           ELSE /\ queue' = [queue EXCEPT
                               ![r] = cancel_email_set_value(doc, x.raised)]
                /\ subs' = x.subs
                /\ last' = [NoLast EXCEPT
                              !.op = "cancel_scheduled_email", !.rec = r,
                              !.result = "ok",
                              !.pre = doc,
                              !.rpcs = IF x.sent THEN {"cancel"} ELSE {},
                              !.jmap_cancelled =
                                  doc.submission_id # NoId /\ ~x.raised,
                              !.cancel_raised = x.raised]
        /\ UNCHANGED <<now, flag, probe, inflight, patch>>

----------------------------------------------------------------------------
(* reschedule_mail (api/mail.py) *)

\* A variant without the ownership check.
reschedule_mail_checks_any_caller(doc, caller, new_scheduled_at, n) ==
    LET v == _validate_schedule_time(new_scheduled_at, n)
    IN  IF v # "ok" THEN v
        ELSE IF doc.status = "None" THEN "NotFound"
        ELSE IF doc.scheduled_at = None THEN "NotScheduled"
        ELSE IF doc.status \in {"Sent", "Delivered"} THEN "AlreadySent"
        ELSE "ok"

reschedule_mail_checks(doc, caller, new_scheduled_at, n) ==
    LET v == _validate_schedule_time(new_scheduled_at, n)
    IN  IF v # "ok" THEN v
        ELSE IF doc.status = "None" THEN "NotFound"
        ELSE IF doc.user # caller /\ caller \notin SystemManagers
        THEN "PermissionDenied"
        ELSE IF doc.scheduled_at = None THEN "NotScheduled"
        ELSE IF doc.status \in {"Sent", "Delivered"} THEN "AlreadySent"
        ELSE "ok"

reschedule_mail(caller, r, new_scheduled_at, o) ==
    LET doc == queue[r]
        c == reschedule_mail_checks(doc, caller, new_scheduled_at, now)
        x == IF doc.submission_id # NoId
             THEN email_submission_cancel(UserName(doc.user),
                                          doc.submission_id, subs)
             ELSE NoCancel(subs)
        new_dt == get_datetime(new_scheduled_at)
        p == MailQueue_process([doc EXCEPT !.scheduled_at = new_dt], r,
                               new_dt, FALSE, x.subs, now, o)
    IN  /\ IF c # "ok"
           THEN /\ last' = [NoLast EXCEPT
                              !.op = "reschedule_mail", !.rec = r,
                              !.result = c,
                              !.pre = IF c \in PolicyErrors THEN NoDoc
                                      ELSE doc]
                /\ UNCHANGED <<queue, subs, flag>>
           ELSE /\ Len(p.res.subs) <= MaxSubs
                /\ queue' = [queue EXCEPT ![r] = p.doc]
                /\ subs' = p.res.subs
                /\ last' = [NoLast EXCEPT
                              !.op = "reschedule_mail", !.rec = r,
                              !.result = "ok",
                              !.pre = doc, !.req = new_dt,
                              !.rpcs = (IF x.sent THEN {"cancel"} ELSE {})
                                       \cup {"create"},
                              !.path = p.res.path, !.made = p.res.made,
                              !.sched_failed = p.res.sched_failed,
                              !.jmap_cancelled =
                                  doc.submission_id # NoId /\ ~x.raised,
                              !.cancel_raised = x.raised]
                /\ flag' = flags_pop(new_dt)
        /\ UNCHANGED <<now, probe, inflight, patch>>

----------------------------------------------------------------------------
(* reschedule_email (api/scheduled.py) *)

reschedule_email_checks(doc, caller, new_scheduled_at, n) ==
    LET v == _validate_schedule_time(new_scheduled_at, n)
    IN  IF v # "ok" THEN v
        ELSE IF doc.status = "None" \/ doc.user # caller THEN "NotFound"
        ELSE IF doc.scheduled_at = None THEN "NotScheduled"
        ELSE IF doc.status \in {"Sent", "Delivered"} THEN "AlreadySent"
        ELSE IF doc.status = "Cancelled" THEN "AlreadyCancelled"
        ELSE "ok"

reschedule_email(caller, r, new_scheduled_at) ==
    LET doc == queue[r]
        c == reschedule_email_checks(doc, caller, new_scheduled_at, now)
        new_datetime == get_datetime(new_scheduled_at)
    IN  /\ IF c # "ok"
           THEN /\ last' = [NoLast EXCEPT
                              !.op = "reschedule_email", !.rec = r,
                              !.result = c,
                              !.pre = IF c \in PolicyErrors THEN NoDoc
                                      ELSE doc]
                /\ UNCHANGED queue
           ELSE /\ queue' = [queue EXCEPT
                               ![r].scheduled_at = new_datetime]
                /\ last' = [NoLast EXCEPT
                              !.op = "reschedule_email", !.rec = r,
                              !.result = "ok",
                              !.pre = doc, !.req = new_datetime]
        /\ UNCHANGED <<now, subs, flag, probe, inflight, patch>>

----------------------------------------------------------------------------
(* check_scheduled_emails_status (tasks.py), the status check run by cron *)

SweepStatuses == {"Scheduled", "Queued", "Pending"}

Selected(q) ==
    {r \in DOMAIN q : /\ q[r].scheduled_at # None
                      /\ q[r].status \in SweepStatuses
                      /\ q[r].submission_id # NoId}

_check_if_sent(email, n) ==
    IF email.scheduled_at < n THEN [email EXCEPT !.status = "Sent"]
    ELSE email

\* A variant of the loop body that takes every submission the server
\* returns as sent.
SweepOne_returned_is_sent(email, present, ss, n) ==
    IF email.submission_id \notin present THEN _check_if_sent(email, n)
    ELSE [email EXCEPT !.status = "Sent"]

\* The loop body for one polled record, given the ids the server returned.
SweepOne(email, present, ss, n) ==
    IF email.submission_id \notin present THEN _check_if_sent(email, n)
    ELSE IF ss[email.submission_id].undo = "final"
    THEN [email EXCEPT !.status = "Sent"]
    ELSE IF ss[email.submission_id].undo = "canceled"
    THEN [email EXCEPT !.status = "Cancelled"]
    ELSE email

\* What the server's response says of submission id: its undoStatus, or
\* "missing" when the response's list does not hold it.
Reported(ss, id) ==
    IF email_submission_get(ss, {id}) = {} THEN "missing" ELSE ss[id].undo

\* The status the server's report calls for.
StatusCalledFor(seen, doc, n) ==
    CASE seen = "final" -> "Sent"
      [] seen = "canceled" -> "Cancelled"
      [] seen = "missing" /\ doc.scheduled_at < n -> "Sent"
      [] OTHER -> doc.status

\* What the sweep writes to the error log: one entry for each user whose
\* block raised, and nothing about a single record.
log_error(failing) ==
    {[title |-> "Failed to check scheduled emails for user",
      user |-> u, rec |-> 0] : u \in failing}

\* A variant whose first failing user ends the whole run: no record of any
\* user is updated once a user's block has raised.
check_scheduled_emails_status_abort_all(failing, done) ==
    LET sel == Selected(queue)
        present(u) ==
            email_submission_get(subs,
                {queue[r].submission_id :
                    r \in {x \in sel : queue[x].user = u}})
    IN  /\ failing \subseteq {queue[r].user : r \in sel}
        /\ done \subseteq {r \in sel : queue[r].user \in failing}
        /\ queue' = [r \in DOMAIN queue |->
                       IF r \in sel /\ failing = {}
                       THEN SweepOne(queue[r], present(queue[r].user),
                                     subs, now)
                       ELSE queue[r]]
        /\ last' = [NoLast EXCEPT
                      !.op = "check_scheduled_emails_status",
                      !.rpcs = IF sel = {} THEN {} ELSE {"get"},
                      !.polled = sel, !.failed = failing,
                      !.before = queue,
                      !.seen = [r \in sel |->
                                  Reported(subs, queue[r].submission_id)],
                      !.logs = log_error(failing),
                      !.partial = done]
        /\ UNCHANGED <<now, subs, flag, probe, inflight, patch>>

\* failing: the users whose block raises (get_jmap_client, the get request
\* or the processing of the response); done: the records of those users
\* that were updated before their block raised.
check_scheduled_emails_status(failing, done) ==
    LET sel == Selected(queue)
        present(u) ==
            email_submission_get(subs,
                {queue[r].submission_id :
                    r \in {x \in sel : queue[x].user = u}})
    IN  /\ failing \subseteq {queue[r].user : r \in sel}
        /\ done \subseteq {r \in sel : queue[r].user \in failing}
        /\ queue' = [r \in DOMAIN queue |->
                       IF r \in sel /\ (queue[r].user \notin failing
                                       \/ r \in done)
                       THEN SweepOne(queue[r], present(queue[r].user),
                                     subs, now)
                       ELSE queue[r]]
        /\ last' = [NoLast EXCEPT
                      !.op = "check_scheduled_emails_status",
                      !.rpcs = IF sel = {} THEN {} ELSE {"get"},
                      !.polled = sel, !.failed = failing,
                      !.before = queue,
                      !.seen = [r \in sel |->
                                  Reported(subs, queue[r].submission_id)],
                      !.logs = log_error(failing),
                      !.partial = done]
        /\ UNCHANGED <<now, subs, flag, probe, inflight, patch>>

----------------------------------------------------------------------------
(* The environment: the clock and the JMAP server *)

TickSteps == {60}

Tick(d) ==
    /\ now + d <= MaxNow
    /\ now' = now + d
    /\ last' = NoLast
    /\ UNCHANGED <<queue, subs, flag, probe, inflight, patch>>

\* The server releases a held submission once its hold instant has come.
ServerRelease(i) ==
    /\ subs[i].undo = "pending"
    /\ subs[i].hold <= now
    /\ subs' = [subs EXCEPT ![i].undo = "final"]
    /\ last' = NoLast
    /\ UNCHANGED <<now, queue, flag, probe, inflight, patch>>

\* Another client cancels a held submission.
ServerCancel(i) ==
    /\ subs[i].undo = "pending"
    /\ subs' = [subs EXCEPT ![i].undo = "canceled"]
    /\ last' = NoLast
    /\ UNCHANGED <<now, queue, flag, probe, inflight, patch>>

\* The server forgets a submission it has sent.
ServerPurge(i) ==
    /\ subs[i].undo = "final"
    /\ subs' = [subs EXCEPT ![i].undo = "gone"]
    /\ last' = NoLast
    /\ UNCHANGED <<now, queue, flag, probe, inflight, patch>>

----------------------------------------------------------------------------
(* The specification of the handlers *)

\* What callers send as scheduled_at at the instant n.
Requests(n) ==
    {EmptyIn, BadIn, At(n + 30), At(n + MinLeadSeconds),
     At(n + MaxHorizonSeconds + 1)}

Init ==
    /\ now = 0
    /\ queue = [r \in RecIds |-> NoDoc]
    /\ subs = <<>>
    /\ flag = None
    /\ last = NoLast
    /\ probe = NoProbe
    /\ inflight = NoRequests
    /\ patch = NoPatch

\* The outcomes that make a difference to a submission made with flag f:
\* a call that is not attempted has no outcome to choose, and a message
\* that was not accepted gets no host status.
OutcomesFor(f, save_as_draft, n) ==
    LET scheduled == f # None /\ ~save_as_draft /\ f > n
    IN  {o \in Outcomes :
           /\ ~scheduled => o.sched = "ok"
           /\ (scheduled /\ o.sched = "ok") => o.orig = "ok"
           /\ (o.orig = "fail" \/ save_as_draft)
                 => (o.host = "Submitted" /\ ~o.stored)}

NoOutcome ==
    [sched |-> "ok", orig |-> "ok", host |-> "Submitted", stored |-> FALSE]

CreateOutcomes(s, d) ==
    IF s.kind = "empty" \/ d THEN OutcomesFor(None, d, now)
    ELSE IF _validate_schedule_time(s, now) # "ok" THEN {NoOutcome}
    ELSE OutcomesFor(get_datetime(s), d, now)

RescheduleOutcomes(c, r, s) ==
    IF reschedule_mail_checks(queue[r], c, s, now) # "ok" THEN {NoOutcome}
    ELSE OutcomesFor(get_datetime(s), FALSE, now)

\* Users are interchangeable: the first message is alice's.
Senders == IF FreeIds = RecIds THEN {"alice"} ELSE Users

Next ==
    \/ \E c \in Senders, s \in Requests(now), d \in BOOLEAN :
          \E o \in CreateOutcomes(s, d) : create_mail(c, s, d, o)
    \/ \E c \in Callers, r \in RecIds : cancel_scheduled_mail(c, r)
    \/ \E c \in Callers, r \in RecIds : cancel_scheduled_email(c, r)
    \/ \E c \in Callers, r \in RecIds, s \in Requests(now) :
          \E o \in RescheduleOutcomes(c, r, s) : reschedule_mail(c, r, s, o)
    \/ \E c \in Callers, r \in RecIds, s \in Requests(now) :
          reschedule_email(c, r, s)
    \/ \E f \in SUBSET Users, d \in SUBSET RecIds :
          check_scheduled_emails_status(f, d)
    \/ \E d \in TickSteps : Tick(d)
    \/ \E i \in DOMAIN subs : ServerRelease(i)
    \/ \E i \in DOMAIN subs : ServerCancel(i)
    \/ \E i \in DOMAIN subs : ServerPurge(i)

Spec == Init /\ [][Next]_vars

----------------------------------------------------------------------------
(* The specification of the handlers that set the schedule flag: create,   *)
(* update of a draft and reschedule, with the clock                         *)

NextDraft ==
    \/ \E c \in Senders, s \in Requests(now), d \in BOOLEAN :
          \E o \in CreateOutcomes(s, d) : create_mail(c, s, d, o)
    \/ \E c \in Senders, found \in BOOLEAN, s \in Requests(now),
          submit \in BOOLEAN :
          \E o \in CreateOutcomes(s, ~submit) :
             update_draft_mail(c, found, s, submit, o)
    \/ \E c \in Callers, r \in RecIds, s \in Requests(now) :
          \E o \in RescheduleOutcomes(c, r, s) : reschedule_mail(c, r, s, o)
    \/ \E d \in TickSteps : Tick(d)

SpecDraft == Init /\ [][NextDraft]_vars

----------------------------------------------------------------------------
(* The specification of the schedule policy alone *)

ProbeOffsets ==
    {-1, 0, 1, MinLeadSeconds - 1, MinLeadSeconds, MinLeadSeconds + 1,
     MaxHorizonSeconds - 1, MaxHorizonSeconds, MaxHorizonSeconds + 1}

ProbeInputs(n) == {EmptyIn, BadIn} \cup {At(n + d) : d \in ProbeOffsets}

InitPolicy ==
    /\ now \in 0..MaxProbeNow
    /\ queue = [r \in RecIds |-> NoDoc]
    /\ subs = <<>>
    /\ flag = None
    /\ last = NoLast
    /\ probe = NoProbe
    /\ inflight = NoRequests
    /\ patch = NoPatch

ValidateScheduleTime ==
    /\ \E s \in ProbeInputs(now) :
          probe' = [fn |-> "_validate_schedule_time", arg |-> s, at |-> now,
                    out |-> _validate_schedule_time(s, now)]
    /\ UNCHANGED <<now, queue, subs, flag, last, inflight, patch>>

NextPolicy == ValidateScheduleTime

SpecPolicy == InitPolicy /\ [][NextPolicy]_vars

----------------------------------------------------------------------------
(* The specification of the HOLDUNTIL conversion alone *)

\* Offsets from UTC, in seconds, of the zones a site, a server process or a
\* caller's string may use.
TzOffsets == {0, 28800}

ProbeInstants == {60, 3600, 86400}

\* The ways a caller can write the instant t (plus a fraction when frac) on
\* a site whose zone is site_off: site time without a zone, as now_datetime
\* gives it, or a time with an explicit offset.
Representations(t, frac, site_off) ==
    {Naive(t + site_off, frac)}
        \cup {Aware(t + off, frac, off) : off \in TzOffsets}

InitEnvelope ==
    /\ now = 0
    /\ queue = [r \in RecIds |-> NoDoc]
    /\ subs = <<>>
    /\ flag = None
    /\ last = NoLast
    /\ probe = NoProbe
    /\ inflight = NoRequests
    /\ patch = NoPatch

BuildEnvelope ==
    /\ \E t \in ProbeInstants, frac \in BOOLEAN,
          site_off \in TzOffsets, os_off \in TzOffsets :
          \E d1 \in Representations(t, frac, site_off),
             d2 \in Representations(t, frac, site_off) :
             probe' = [fn |-> "hold_until", instant |-> t, frac |-> frac,
                       site_off |-> site_off, os_off |-> os_off,
                       arg |-> d1, arg2 |-> d2,
                       out |-> hold_until(d1, os_off),
                       out2 |-> hold_until(d2, os_off)]
    /\ UNCHANGED <<now, queue, subs, flag, last, inflight, patch>>

ProbeDelays == {60, 3600, MaxHorizonSeconds}

\* A scheduled request made at the instant n for the instant n + d on a site
\* whose zone is site_off, by a server process whose zone is os_off.  The
\* policy and the patched create compare site times, get_datetime of the
\* input with now_datetime(); the envelope takes timestamp() of the same
\* naive site time.
RequestEnvelope ==
    /\ \E n \in ProbeInstants, d \in ProbeDelays,
          site_off \in TzOffsets, os_off \in TzOffsets :
          LET site_now == n + site_off
              schedule_dt == n + d + site_off
          IN  /\ _validate_schedule_time(At(schedule_dt), site_now) = "ok"
              /\ schedule_dt > site_now
              /\ probe' = [fn |-> "request", at |-> n, instant |-> n + d,
                           site_off |-> site_off, os_off |-> os_off,
                           arg |-> Naive(schedule_dt, FALSE),
                           out |-> hold_until(Naive(schedule_dt, FALSE),
                                              os_off)]
    /\ UNCHANGED <<now, queue, subs, flag, last, inflight, patch>>

NextEnvelope == BuildEnvelope \/ RequestEnvelope

SpecEnvelope == InitEnvelope /\ [][NextEnvelope]_vars

----------------------------------------------------------------------------
(* The specification of the status check over a batch of held messages *)

BatchIds == 1..MaxBatch

SweepNow == 2 * 3600
HoldPast == SweepNow - 3600
HoldFuture == SweepNow + 3600

UndoStates == {"pending", "final", "canceled", "gone"}

\* Mail Queue records of scheduled creates that came earlier, some with a
\* stored submission id, and what became of their submissions on the server.
InitSweep ==
    /\ now = SweepNow
    /\ \E u \in [BatchIds -> Users],
          st \in [BatchIds -> {"Scheduled", "Submitted"}],
          at \in [BatchIds -> {HoldPast, HoldFuture}],
          stored \in SUBSET BatchIds,
          undo \in [BatchIds -> UndoStates] :
          /\ u[1] = "alice"
          /\ queue = [r \in BatchIds |->
                        [user |-> u[r], status |-> st[r],
                         scheduled_at |-> at[r],
                         submission_id |-> IF r \in stored THEN r ELSE NoId,
                         id |-> r, error_message |-> ""]]
          /\ subs = [r \in BatchIds |->
                       [msg |-> r, hold |-> holduntil(at[r]),
                        undo |-> undo[r]]]
    /\ flag = None
    /\ last = NoLast
    /\ probe = NoProbe
    /\ inflight = NoRequests
    /\ patch = NoPatch

NextSweep ==
    \E f \in SUBSET Users, d \in SUBSET BatchIds :
       check_scheduled_emails_status(f, d)

SpecSweep == InitSweep /\ [][NextSweep]_vars

----------------------------------------------------------------------------
(* The specification of requests that run side by side: each worker runs   *)
(* its handler statement by statement, in its own database transaction,    *)
(* from the read of the record to the write of it.                         *)

\* frappe.get_doc / frappe.get_value and the checks: a request that passes
\* them goes on to the remote cancel, one that fails them ends there.
CancelRead(w, op, caller, r) ==
    LET doc == queue[r]
        c == IF op = "cancel_scheduled_mail"
             THEN cancel_mail_checks(doc, caller, now)
             ELSE cancel_email_checks(doc, caller, now)
    IN  /\ inflight[w] = Idle
        /\ IF c # "ok"
           THEN /\ last' = [NoLast EXCEPT !.op = op, !.rec = r,
                                          !.result = c, !.pre = doc]
                /\ UNCHANGED inflight
           ELSE /\ inflight' = [inflight EXCEPT ![w] =
                                  [Idle EXCEPT !.op = op, !.pc = "remote",
                                               !.caller = caller,
                                               !.recs = {r}, !.doc = doc]]
                /\ UNCHANGED last
        /\ UNCHANGED <<now, queue, subs, flag, probe, patch>>

\* The try block around email_submission_cancel, with the submission id
\* the request read.
CancelRemote(w) ==
    LET q == inflight[w]
        doc == q.doc
        x == IF doc.submission_id = NoId THEN NoCancel(subs)
             ELSE IF q.op = "cancel_scheduled_mail"
             THEN email_submission_cancel(UserName(doc.user),
                                          doc.submission_id, subs)
             ELSE email_submission_cancel(UserName(q.caller), doc.id, subs)
    IN  /\ q.op \in {"cancel_scheduled_mail", "cancel_scheduled_email"}
        /\ q.pc = "remote"
        /\ subs' = x.subs
        /\ inflight' = [inflight EXCEPT ![w].pc = "write",
                                        ![w].raised = x.raised]
        /\ UNCHANGED <<now, queue, flag, last, probe, patch>>

\* doc.db_set / frappe.db.set_value: the columns are written to the row as
\* it is now.
CancelWrite(w) ==
    LET q == inflight[w]
        r == CHOOSE x \in q.recs : TRUE
    IN  /\ q.op \in {"cancel_scheduled_mail", "cancel_scheduled_email"}
        /\ q.pc = "write"
        /\ queue' = [queue EXCEPT ![r] =
                       IF q.op = "cancel_scheduled_mail"
                       THEN cancel_mail_db_set(queue[r])
                       ELSE cancel_email_set_value(queue[r], q.raised)]
        /\ last' = [NoLast EXCEPT !.op = q.op, !.rec = r, !.result = "ok"]
        /\ inflight' = [inflight EXCEPT ![w] = Idle]
        /\ UNCHANGED <<now, subs, flag, probe, patch>>

\* frappe.get_all at the start of the sweep, then EmailSubmission/get.
SweepRead(w) ==
    /\ inflight[w] = Idle
    /\ Selected(queue) # {}
    /\ inflight' = [inflight EXCEPT ![w] =
                      [Idle EXCEPT
                         !.op = "check_scheduled_emails_status",
                         !.pc = "write",
                         !.recs = Selected(queue),
                         !.seen = [r \in Selected(queue) |->
                                     [email |-> queue[r],
                                      undo |-> Reported(
                                         subs, queue[r].submission_id)]]]]
    /\ UNCHANGED <<now, queue, subs, flag, last, probe, patch>>

\* The frappe.db.set_value calls of the sweep, from what it read before.
SweepWrite(w) ==
    LET q == inflight[w]
        status(r) == StatusCalledFor(q.seen[r].undo, q.seen[r].email, now)
    IN  /\ q.op = "check_scheduled_emails_status"
        /\ q.pc = "write"
        /\ queue' = [r \in DOMAIN queue |->
                       IF r \in q.recs /\ status(r) # q.seen[r].email.status
                       THEN [queue[r] EXCEPT !.status = status(r)]
                       ELSE queue[r]]
        /\ last' = [NoLast EXCEPT !.op = q.op, !.polled = q.recs]
        /\ inflight' = [inflight EXCEPT ![w] = Idle]
        /\ UNCHANGED <<now, subs, flag, probe, patch>>

\* A held message of alice, as a scheduled create left it, with or without
\* a stored submission id, and its submission on the server.
InitConcurrent ==
    /\ now = 0
    /\ \E st \in {"Scheduled", "Submitted"}, stored \in BOOLEAN,
          undo \in UndoStates :
          /\ queue = [r \in RecIds |->
                        [user |-> "alice", status |-> st,
                         scheduled_at |-> MinLeadSeconds,
                         submission_id |-> IF stored THEN r ELSE NoId,
                         id |-> r, error_message |-> ""]]
          /\ subs = [r \in RecIds |->
                       [msg |-> r, hold |-> holduntil(MinLeadSeconds),
                        undo |-> undo]]
    /\ flag = None
    /\ last = NoLast
    /\ probe = NoProbe
    /\ inflight = NoRequests
    /\ patch = NoPatch

NextConcurrent ==
    \/ \E w \in Workers, c \in Callers, r \in RecIds,
          op \in {"cancel_scheduled_mail", "cancel_scheduled_email"} :
          CancelRead(w, op, c, r)
    \/ \E w \in Workers : CancelRemote(w)
    \/ \E w \in Workers : CancelWrite(w)
    \/ \E w \in Workers : SweepRead(w)
    \/ \E w \in Workers : SweepWrite(w)

SpecConcurrent == InitConcurrent /\ [][NextConcurrent]_vars

----------------------------------------------------------------------------
(* The specification of the horizon at the two validation points, on a      *)
(* site that leaves stalwart_max_delayed_send unset, against a server that  *)
(* advertises a maximum hold duration (or none)                             *)

\* The maxDelayedSend values a server can advertise; None when the session
\* cannot be read.
Capabilities == {None, 86400, STALWART_MAX_DELAYED_SEND, 7776000}

HorizonDelays ==
    {MinLeadSeconds, 86400, 86401, MaxHorizonSeconds, MaxHorizonSeconds + 1,
     7776000, 7776001}

InitHorizon ==
    /\ now \in 0..MaxProbeNow
    /\ queue = [r \in RecIds |-> NoDoc]
    /\ subs = <<>>
    /\ flag = None
    /\ last = NoLast
    /\ probe = NoProbe
    /\ inflight = NoRequests
    /\ patch = NoPatch

\* One requested instant put through the API policy and through the Mail
\* Queue validate hook; neither reads the server's capability.
ValidateHorizon ==
    /\ \E cap \in Capabilities, d \in HorizonDelays :
          probe' = [fn |-> "horizon", cap |-> cap, at |-> now,
                    arg |-> At(now + d),
                    out |-> _validate_schedule_time(At(now + d), now),
                    hook |-> validate([NoDoc EXCEPT
                                         !.scheduled_at = now + d], now)]
    /\ UNCHANGED <<now, queue, subs, flag, last, inflight, patch>>

NextHorizon == ValidateHorizon

SpecHorizon == InitHorizon /\ [][NextHorizon]_vars

----------------------------------------------------------------------------
(* The specification of apply_patches called from several threads of one    *)
(* process, statement by statement                                          *)

MaxWraps == 2

\* A variant in which the lock excludes nobody.
acquire_unguarded(p) == TRUE

\* with _patch_lock: a thread enters when no thread holds the lock.
acquire(p) == p.lock = ""

\* Leaving the with block and returning v.
ApplyReturn(w, v) ==
    /\ patch' = [patch EXCEPT !.lock = "", !.ret[w] = v]
    /\ inflight' = [inflight EXCEPT ![w] = Idle]

ApplyStep(w, pc) == inflight' = [inflight EXCEPT ![w].pc = pc]

ApplyCall(w) ==
    /\ inflight[w] = Idle
    /\ inflight' = [inflight EXCEPT
                      ![w] = [Idle EXCEPT !.op = "apply_patches",
                                          !.pc = "lock"]]
    /\ UNCHANGED <<now, queue, subs, flag, last, probe, patch>>

ApplyAcquire(w) ==
    /\ inflight[w].op = "apply_patches" /\ inflight[w].pc = "lock"
    /\ acquire(patch)
    /\ patch' = [patch EXCEPT !.lock = w]
    /\ ApplyStep(w, "applied")
    /\ UNCHANGED <<now, queue, subs, flag, last, probe>>

\* if _patch_applied: return True
ApplyCheckApplied(w) ==
    /\ inflight[w].op = "apply_patches" /\ inflight[w].pc = "applied"
    /\ IF patch.applied
       THEN ApplyReturn(w, "True")
       ELSE ApplyStep(w, "import") /\ UNCHANGED patch
    /\ UNCHANGED <<now, queue, subs, flag, last, probe>>

\* from mail.jmap import JMAPClient (False on ImportError), then the test
\* of _original_email_create.
ApplyImport(w, ok) ==
    /\ inflight[w].op = "apply_patches" /\ inflight[w].pc = "import"
    /\ IF ~ok THEN ApplyReturn(w, "False")
       ELSE IF patch.original # None
       THEN ApplyStep(w, "mark") /\ UNCHANGED patch
       ELSE ApplyStep(w, "store") /\ UNCHANGED patch
    /\ UNCHANGED <<now, queue, subs, flag, last, probe>>

\* _original_email_create = JMAPClient.email_create
ApplyStore(w) ==
    /\ inflight[w].op = "apply_patches" /\ inflight[w].pc = "store"
    /\ patch' = [patch EXCEPT !.original = patch.email_create]
    /\ ApplyStep(w, "assign")
    /\ UNCHANGED <<now, queue, subs, flag, last, probe>>

\* JMAPClient.email_create = patched_email_create
ApplyAssign(w) ==
    /\ inflight[w].op = "apply_patches" /\ inflight[w].pc = "assign"
    /\ patch.email_create < MaxWraps
    /\ patch' = [patch EXCEPT !.email_create = patch.email_create + 1]
    /\ ApplyStep(w, "mark")
    /\ UNCHANGED <<now, queue, subs, flag, last, probe>>

\* _patch_applied = True; return success
ApplyMark(w) ==
    /\ inflight[w].op = "apply_patches" /\ inflight[w].pc = "mark"
    /\ patch' = [patch EXCEPT !.applied = TRUE, !.lock = "",
                              !.ret[w] = "True"]
    /\ inflight' = [inflight EXCEPT ![w] = Idle]
    /\ UNCHANGED <<now, queue, subs, flag, last, probe>>

InitPatch ==
    /\ now = 0
    /\ queue = [r \in RecIds |-> NoDoc]
    /\ subs = <<>>
    /\ flag = None
    /\ last = NoLast
    /\ probe = NoProbe
    /\ inflight = NoRequests
    /\ patch = NoPatch

NextPatch ==
    \/ \E w \in Workers : ApplyCall(w)
    \/ \E w \in Workers : ApplyAcquire(w)
    \/ \E w \in Workers : ApplyCheckApplied(w)
    \/ \E w \in Workers, ok \in BOOLEAN : ApplyImport(w, ok)
    \/ \E w \in Workers : ApplyStore(w)
    \/ \E w \in Workers : ApplyAssign(w)
    \/ \E w \in Workers : ApplyMark(w)

SpecPatch == InitPatch /\ [][NextPatch]_vars

----------------------------------------------------------------------------
(* The specification of apply_patches and remove_patches called from        *)
(* several threads of one process, statement by statement                   *)

\* is_patched(): the value of _patch_applied, read without the lock.
is_patched == patch.applied

RemoveCall(w) ==
    /\ inflight[w] = Idle
    /\ inflight' = [inflight EXCEPT
                      ![w] = [Idle EXCEPT !.op = "remove_patches",
                                          !.pc = "lock"]]
    /\ UNCHANGED <<now, queue, subs, flag, last, probe, patch>>

RemoveAcquire(w) ==
    /\ inflight[w].op = "remove_patches" /\ inflight[w].pc = "lock"
    /\ acquire(patch)
    /\ patch' = [patch EXCEPT !.lock = w]
    /\ ApplyStep(w, "applied")
    /\ UNCHANGED <<now, queue, subs, flag, last, probe>>

\* if not _patch_applied: return True
RemoveCheckApplied(w) ==
    /\ inflight[w].op = "remove_patches" /\ inflight[w].pc = "applied"
    /\ IF ~patch.applied
       THEN ApplyReturn(w, "True")
       ELSE ApplyStep(w, "import") /\ UNCHANGED patch
    /\ UNCHANGED <<now, queue, subs, flag, last, probe>>

\* from mail.jmap import JMAPClient (False on an exception), then the test
\* of _original_email_create.
RemoveImport(w, ok) ==
    /\ inflight[w].op = "remove_patches" /\ inflight[w].pc = "import"
    /\ IF ~ok THEN ApplyReturn(w, "False")
       ELSE IF patch.original # None
       THEN ApplyStep(w, "restore") /\ UNCHANGED patch
       ELSE ApplyStep(w, "unmark") /\ UNCHANGED patch
    /\ UNCHANGED <<now, queue, subs, flag, last, probe>>

\* JMAPClient.email_create = _original_email_create
RemoveRestore(w) ==
    /\ inflight[w].op = "remove_patches" /\ inflight[w].pc = "restore"
    /\ patch' = [patch EXCEPT !.email_create = patch.original]
    /\ ApplyStep(w, "clear")
    /\ UNCHANGED <<now, queue, subs, flag, last, probe>>

\* _original_email_create = None
RemoveClear(w) ==
    /\ inflight[w].op = "remove_patches" /\ inflight[w].pc = "clear"
    /\ patch' = [patch EXCEPT !.original = None]
    /\ ApplyStep(w, "unmark")
    /\ UNCHANGED <<now, queue, subs, flag, last, probe>>

\* _patch_applied = False; return True
RemoveUnmark(w) ==
    /\ inflight[w].op = "remove_patches" /\ inflight[w].pc = "unmark"
    /\ patch' = [patch EXCEPT !.applied = FALSE, !.lock = "",
                              !.ret[w] = "True"]
    /\ inflight' = [inflight EXCEPT ![w] = Idle]
    /\ UNCHANGED <<now, queue, subs, flag, last, probe>>

NextUnpatch ==
    \/ NextPatch
    \/ \E w \in Workers : RemoveCall(w)
    \/ \E w \in Workers : RemoveAcquire(w)
    \/ \E w \in Workers : RemoveCheckApplied(w)
    \/ \E w \in Workers, ok \in BOOLEAN : RemoveImport(w, ok)
    \/ \E w \in Workers : RemoveRestore(w)
    \/ \E w \in Workers : RemoveClear(w)
    \/ \E w \in Workers : RemoveUnmark(w)

SpecUnpatch == InitPatch /\ [][NextUnpatch]_vars

----------------------------------------------------------------------------
(* The specification of the JMAP request a scheduled create-and-submit      *)
(* builds: the list of method calls handed to client._make_request         *)

EmailIds == {None} \cup BatchIds

draft_ref(creation_id) == <<"draft", creation_id>>
submit_ref(creation_id) == <<"submit", creation_id>>

\* "#ref": a back-reference to an object created earlier in the request.
BackRef(ref) == <<"#">> \o ref

\* The id of an object the server already has.
Id(kind, id) == <<"id", kind, id>>

\* STEP 3: the updates applied when the submission succeeds.
updates(creation_id, destroy_after_submit, forwarded_id, reply_to_id) ==
    (IF destroy_after_submit THEN {}
     ELSE {<<BackRef(submit_ref(creation_id)), "sent">>})
    \cup (IF forwarded_id # None
          THEN {<<Id("email", forwarded_id), "$forwarded">>} ELSE {})
    \cup (IF reply_to_id # None
          THEN {<<Id("email", reply_to_id), "$answered">>} ELSE {})

\* "ENVID": str(creation_id); creation_id is the Mail Queue record's name
\* (it is also sent as the X-Mail-Queue header).
ENVID(creation_id) == ToString(creation_id)

\* STEP 2: the EmailSubmission/set call, with its envelope parameters.
submit_call(creation_id, scheduled_at, destroy_after_submit, forwarded_id, reply_to_id) ==
    [method |-> "EmailSubmission/set",
     create |-> {submit_ref(creation_id)},
     destroy |-> {},
     emailId |-> BackRef(draft_ref(creation_id)),
     ENVID |-> ENVID(creation_id),
     HOLDUNTIL |-> holduntil(scheduled_at),
     onSuccessDestroyEmail |->
         IF destroy_after_submit THEN {BackRef(submit_ref(creation_id))}
         ELSE {},
     onSuccessUpdateEmail |->
         updates(creation_id, destroy_after_submit, forwarded_id,
                 reply_to_id)]

\* STEP 1: Email/import of the uploaded blob (and an Email/set that destroys
\* the existing draft), or Email/set create of the draft.
draft_calls(creation_id, raw_message, existing_id) ==
    LET destroys == IF existing_id # None THEN {existing_id} ELSE {}
        call(m, c, d) ==
            [method |-> m, create |-> c, destroy |-> d, emailId |-> None,
             ENVID |-> "", HOLDUNTIL |-> None,
             onSuccessDestroyEmail |-> {}, onSuccessUpdateEmail |-> {}]
    IN  IF raw_message
        THEN <<call("Email/import", {draft_ref(creation_id)}, {})>>
             \o (IF existing_id # None
                 THEN <<call("Email/set", {}, destroys)>> ELSE <<>>)
        ELSE <<call("Email/set", {draft_ref(creation_id)}, destroys)>>

\* A variant that submits before it creates.
method_calls_submit_first(creation_id, raw_message, existing_id, scheduled_at, destroy_after_submit, forwarded_id, reply_to_id) ==
    <<submit_call(creation_id, scheduled_at, destroy_after_submit,
                  forwarded_id, reply_to_id)>>
    \o draft_calls(creation_id, raw_message, existing_id)

\* The method_calls list of _email_create_with_schedule.
method_calls(creation_id, raw_message, existing_id, scheduled_at, destroy_after_submit, forwarded_id, reply_to_id) ==
    draft_calls(creation_id, raw_message, existing_id)
    \o <<submit_call(creation_id, scheduled_at, destroy_after_submit,
                     forwarded_id, reply_to_id)>>

\* The method_calls list of email_create_scheduled (jmap/futurerelease.py):
\* Email/set create "draft", then EmailSubmission/set with emailId "#draft";
\* HOLDUNTIL only when scheduled_at is given.
email_create_scheduled(scheduled_at) ==
    <<[method |-> "Email/set", create |-> {<<"draft", 0>>}, destroy |-> {},
       emailId |-> None, ENVID |-> "", HOLDUNTIL |-> None,
       onSuccessDestroyEmail |-> {}, onSuccessUpdateEmail |-> {}],
      [method |-> "EmailSubmission/set", create |-> {<<"submission", 0>>},
       destroy |-> {}, emailId |-> BackRef(<<"draft", 0>>), ENVID |-> "",
       HOLDUNTIL |-> IF scheduled_at = None THEN None
                     ELSE holduntil(scheduled_at),
       onSuccessDestroyEmail |-> {}, onSuccessUpdateEmail |-> {}]>>

InitRequest ==
    /\ now = 0
    /\ queue = [r \in RecIds |-> NoDoc]
    /\ subs = <<>>
    /\ flag = None
    /\ last = NoLast
    /\ probe = NoProbe
    /\ inflight = NoRequests
    /\ patch = NoPatch

BuildScheduledCreate ==
    /\ \E creation_id \in BatchIds, raw_message \in BOOLEAN,
          existing_id \in EmailIds, destroy_after_submit \in BOOLEAN,
          forwarded_id \in {None, 1}, reply_to_id \in {None, 2} :
          probe' = [fn |-> "_email_create_with_schedule",
                    creation_id |-> creation_id,
                    raw_message |-> raw_message,
                    existing_id |-> existing_id,
                    calls |-> method_calls(creation_id, raw_message,
                                           existing_id, HoldFuture,
                                           destroy_after_submit,
                                           forwarded_id, reply_to_id)]
    /\ UNCHANGED <<now, queue, subs, flag, last, inflight, patch>>

BuildFacadeCreate ==
    /\ \E scheduled_at \in {None, HoldPast, HoldFuture} :
          probe' = [fn |-> "email_create_scheduled",
                    creation_id |-> 0, raw_message |-> FALSE,
                    existing_id |-> None,
                    calls |-> email_create_scheduled(scheduled_at)]
    /\ UNCHANGED <<now, queue, subs, flag, last, inflight, patch>>

\* Addresses are numbered; a recipient is a type and an address.
Addresses == 1..2
RecipientTypes == {"To", "Cc", "Bcc"}
MaxRecipients == 2

RecipientLists ==
    UNION {[1..n -> [type : RecipientTypes, email : Addresses]] :
              n \in 1..MaxRecipients}

RECURSIVE sorted(_)
sorted(S) ==
    IF S = {} THEN <<>>
    ELSE LET m == CHOOSE x \in S : \A y \in S : x <= y
         IN  <<m>> \o sorted(S \ {m})

\* The addresses of the recipients of one type, in order.
RECURSIVE filter_recipients(_, _)
filter_recipients(recipients, kind) ==
    IF recipients = <<>> THEN <<>>
    ELSE (IF Head(recipients).type = kind
          THEN <<Head(recipients).email>> ELSE <<>>)
         \o filter_recipients(Tail(recipients), kind)

\* "rcptTo" of _email_create_with_schedule: one entry for each address of
\* sorted({r["email"] for r in recipients}), with NOTIFY and ORCPT.
rcptTo(recipients) ==
    LET emails == sorted({recipients[i].email : i \in DOMAIN recipients})
    IN  [k \in DOMAIN emails |->
            [email |-> emails[k], NOTIFY |-> "DELAY,FAILURE",
             ORCPT |-> emails[k]]]

\* "rcptTo" of email_create_scheduled: one entry for each element of
\* to + cc + bcc, with the address alone.
rcptTo_scheduled(to, cc, bcc) ==
    LET all == to \o cc \o bcc
    IN  [k \in DOMAIN all |->
            [email |-> all[k], NOTIFY |-> "", ORCPT |-> None]]

BuildRecipients ==
    /\ \E recipients \in RecipientLists :
          \/ probe' = [fn |-> "rcptTo", by |-> "_email_create_with_schedule",
                       recipients |-> recipients,
                       out |-> rcptTo(recipients)]
          \/ probe' = [fn |-> "rcptTo", by |-> "email_create_scheduled",
                       recipients |-> recipients,
                       out |-> rcptTo_scheduled(
                                  filter_recipients(recipients, "To"),
                                  filter_recipients(recipients, "Cc"),
                                  filter_recipients(recipients, "Bcc"))]
    /\ UNCHANGED <<now, queue, subs, flag, last, inflight, patch>>

NextRequest == BuildScheduledCreate \/ BuildFacadeCreate \/ BuildRecipients

SpecRequest == InitRequest /\ [][NextRequest]_vars

----------------------------------------------------------------------------
(* Properties of cancel, reschedule and scheduled create *)

CancelOps == {"cancel_scheduled_mail", "cancel_scheduled_email"}

\* The held submissions of message r that the server has not yet released.
Outstanding(r) ==
    {i \in DOMAIN subs : subs[i].msg = r /\ subs[i].undo = "pending"}

\* The record reads as a send that is still to come.
ReadsScheduled(doc) ==
    /\ doc.scheduled_at # None
    /\ doc.status \in {"Submitted"} \cup SweepStatuses

\* C1: a message never has more than one outstanding held submission on the
\* server, whatever sequence of create, cancel and reschedule ran.
C1_OneOutstandingSubmission ==
    \A r \in RecIds : Cardinality(Outstanding(r)) <= 1

\* C2: a cancel that passes its precondition checks leaves the local record
\* Cancelled, also when the remote cancel call raised; the record does not
\* still read as scheduled after the accepted cancel.
C2_AcceptedCancelIsCancelled ==
    (last.op \in CancelOps /\ last.result = "ok")
        => /\ queue[last.rec].status = "Cancelled"
           /\ ~ReadsScheduled(queue[last.rec])

C2_Witness ==
    /\ last.op = "cancel_scheduled_email"
    /\ last.result = "ok"
    /\ last.cancel_raised
    /\ ReadsScheduled(last.pre)
    /\ queue[last.rec].status = "Cancelled"

\* C3: a cancel on a record whose status is Sent changes nothing of the
\* record, and a caller who may see the record gets the already-sent error,
\* at both entry points.
C3_CancelOnSentRejected ==
    [][\A c \in Callers, r \in RecIds :
          queue[r].status = "Sent" =>
             /\ cancel_scheduled_mail(c, r) =>
                   /\ queue'[r] = queue[r]
                   /\ (c = queue[r].user \/ c \in SystemManagers)
                         => last'.result = "AlreadySent"
             /\ cancel_scheduled_email(c, r) =>
                   /\ queue'[r] = queue[r]
                   /\ c = queue[r].user => last'.result = "AlreadySent"]_vars

C3_Witness ==
    /\ last.op = "cancel_scheduled_mail"
    /\ last.pre.status = "Sent"
    /\ last.result = "AlreadySent"
    /\ queue[last.rec].status = "Sent"

\* C4: cancel is idempotent on a record the user already cancelled: the
\* owner's second cancel returns without an error and the record is
\* Cancelled after it, at both entry points.
C4_CancelIdempotent ==
    [][\A r \in RecIds :
          (/\ queue[r].status = "Cancelled"
           /\ queue[r].error_message
                 \in {"Cancelled by user", "Cancelled by user (JMAP)"})
          => /\ cancel_scheduled_mail(queue[r].user, r) =>
                   (last'.result = "ok" /\ queue'[r].status = "Cancelled")
             /\ cancel_scheduled_email(queue[r].user, r) =>
                   (last'.result = "ok" /\ queue'[r].status = "Cancelled")
      ]_vars

\* C5: when the cancel step of a cancel-and-recreate reschedule fails, the
\* reschedule is refused as already finalized, no new submission is made and
\* the record keeps its scheduled_at and its submission_id.
C5_FailedCancelStopsReschedule ==
    (last.op = "reschedule_mail" /\ last.cancel_raised)
        => /\ last.result = "AlreadyFinalized"
           /\ last.made = 0
           /\ queue[last.rec].scheduled_at = last.pre.scheduled_at
           /\ queue[last.rec].submission_id = last.pre.submission_id

\* C6: after an accepted reschedule of a record whose held submission is
\* still outstanding, the record is Scheduled with the same submission_id and
\* the new scheduled_at, and the server holds that submission until the new
\* instant.
C6_RescheduleMovesRemoteHold ==
    (/\ last.op = "reschedule_email"
     /\ last.result = "ok"
     /\ last.req # None
     /\ last.req # last.pre.scheduled_at
     /\ last.pre.submission_id \in DOMAIN subs
     /\ subs[last.pre.submission_id].undo = "pending")
        => /\ "update" \in last.rpcs
           /\ ReadsScheduled(queue[last.rec])
           /\ queue[last.rec].submission_id = last.pre.submission_id
           /\ queue[last.rec].scheduled_at = last.req
           /\ subs[last.pre.submission_id].hold = holduntil(last.req)

\* C7: when the scheduled create-and-submit call fails, the message is not
\* sent at once: no submission without a hold exists for it, and the record
\* is Failed with an error message.
C7_NoFallbackToImmediateSend ==
    (last.op = "create_mail" /\ last.sched_failed)
        => /\ last.path # "fallback"
           /\ \A i \in DOMAIN subs :
                 subs[i].msg = last.rec => subs[i].hold # None
           /\ queue[last.rec].status = "Failed"
           /\ queue[last.rec].error_message # ""

\* C8: when the scheduled create-and-submit call succeeds, the record holds
\* the server's message id, the id of the new submission and the requested
\* instant, and reads as scheduled.
C8_ScheduledCreateIsRecorded ==
    (/\ last.op = "create_mail"
     /\ last.result = "ok"
     /\ last.path = "scheduled"
     /\ ~last.sched_failed)
        => /\ queue[last.rec].id # NoId
           /\ queue[last.rec].submission_id = Len(subs)
           /\ subs[Len(subs)].msg = last.rec
           /\ queue[last.rec].scheduled_at = last.req
           /\ ReadsScheduled(queue[last.rec])

\* C9: a scheduled create whose instant breaks the schedule policy is
\* rejected with no effect: no Mail Queue record is created and no remote
\* call is made.
C9_PolicyRejectHasNoEffect ==
    [][(last'.op = "create_mail" /\ last'.result \in PolicyErrors)
          => /\ queue' = queue
             /\ subs' = subs
             /\ last'.rpcs = {}
             /\ last'.made = 0]_vars

C9_Witness ==
    /\ last.op = "create_mail"
    /\ last.result = "TooFar"
    /\ \A r \in RecIds : queue[r] = NoDoc
    /\ subs = <<>>

\* The instant t lies in the window of policy at the instant n, endpoints
\* included or not.
InWindow(t, n, closed) ==
    IF closed
    THEN n + MinLeadSeconds <= t /\ t <= n + MaxHorizonSeconds
    ELSE n + MinLeadSeconds < t /\ t < n + MaxHorizonSeconds

PolicyAgrees(closed) ==
    (probe.fn = "_validate_schedule_time" /\ probe.arg.kind = "at")
        => /\ probe.out = "ok" <=> InWindow(probe.arg.t, probe.at, closed)
           /\ probe.out = "TooSoon" =>
                 ~InWindow(probe.arg.t, probe.at, closed)
           /\ probe.out = "TooFar" =>
                 ~InWindow(probe.arg.t, probe.at, closed)
           /\ probe.out \in {"ok", "TooSoon", "TooFar"}

\* C10: an instant is accepted exactly when it lies from now + 1 minute to
\* now + 30 days, both endpoints included; an earlier instant is rejected as
\* too soon and a later one as too far.
C10_PolicyClosedWindow ==
    /\ PolicyAgrees(TRUE)
    /\ (probe.fn = "_validate_schedule_time" /\ probe.arg.kind = "at")
          => /\ probe.out = "TooSoon"
                   <=> probe.arg.t < probe.at + MinLeadSeconds
             /\ probe.out = "TooFar"
                   <=> probe.arg.t > probe.at + MaxHorizonSeconds

\* C10 as stated: accepted exactly when strictly between now + 1 minute and
\* now + 30 days, the endpoints being rejected.
C10_PolicyOpenWindow == PolicyAgrees(FALSE)

C10_Witness ==
    /\ probe.fn = "_validate_schedule_time"
    /\ probe.arg = At(probe.at + MinLeadSeconds)
    /\ probe.out = "ok"

\* C11: the HOLDUNTIL value is the floor of the requested instant's epoch
\* seconds, and two ways of writing the same instant give the same value.
C11_HoldUntilIsFloorOfInstant ==
    probe.fn = "hold_until"
        => /\ probe.out = probe.instant
           /\ probe.out2 = probe.out

\* The sweep just ran and polled record r for an account that did not fail.
Swept(r) ==
    /\ last.op = "check_scheduled_emails_status"
    /\ r \in last.polled
    /\ last.before[r].user \notin last.failed

\* C12: for a polled record whose submission the server returns, final sets
\* the status to Sent, canceled sets it to Cancelled and pending leaves the
\* record as it was; a batch reported final, pending and missing with a hold
\* instant one hour past ends Sent, unchanged, Sent.
C12_SweepAppliesUndoState ==
    /\ \A r \in DOMAIN queue :
          Swept(r) =>
             /\ last.seen[r] = "final" => queue[r].status = "Sent"
             /\ last.seen[r] = "canceled" => queue[r].status = "Cancelled"
             /\ last.seen[r] = "pending" => queue[r] = last.before[r]
    /\ \A r1, r2, r3 \in DOMAIN queue :
          (/\ Swept(r1) /\ Swept(r2) /\ Swept(r3)
           /\ last.seen[r1] = "final"
           /\ last.seen[r2] = "pending"
           /\ last.seen[r3] = "missing"
           /\ last.before[r3].scheduled_at = now - 3600)
          => /\ queue[r1].status = "Sent"
             /\ queue[r2].status = last.before[r2].status
             /\ queue[r3].status = "Sent"

C12_Witness ==
    /\ Swept(1) /\ Swept(2) /\ Swept(3)
    /\ last.seen[1] = "final"
    /\ last.seen[2] = "pending"
    /\ last.seen[3] = "missing"
    /\ last.before[3].scheduled_at = now - 3600
    /\ queue[1].status = "Sent"
    /\ queue[2].status = "Scheduled"
    /\ queue[3].status = "Sent"

\* C13: for a polled record whose submission is missing from the server's
\* response, a hold instant in the past makes the status Sent, and a hold
\* instant still to come leaves the record as it was and logs an anomaly
\* about it.
C13_MissingSubmission ==
    \A r \in DOMAIN queue :
       (Swept(r) /\ last.seen[r] = "missing") =>
          /\ last.before[r].scheduled_at < now => queue[r].status = "Sent"
          /\ last.before[r].scheduled_at > now =>
                /\ queue[r] = last.before[r]
                /\ \E l \in last.logs : l.rec = r

\* The submissions the server has of message r.
SubmissionsOf(r) == {i \in DOMAIN subs : subs[i].msg = r}

\* C14: a record that reads as scheduled, as a successful scheduled create
\* leaves it, is polled by the sweep that runs next, and when the server
\* reports its submission canceled that sweep makes the record Cancelled.
C14_SweepPollsScheduledCreate ==
    last.op = "check_scheduled_emails_status" =>
       \A r \in DOMAIN queue :
          (ReadsScheduled(last.before[r]) /\ SubmissionsOf(r) # {}) =>
             /\ r \in last.polled
             /\ (/\ \A i \in SubmissionsOf(r) : subs[i].undo = "canceled"
                 /\ last.before[r].user \notin last.failed)
                => queue[r].status = "Cancelled"

\* C15: when one account's block of the sweep fails, the records of every
\* other account with held messages are still polled and updated in the
\* same run, and the failed account's records that were not reached stay
\* as they were, selected again by the run that comes next.
C15_SweepIsolatesAccounts ==
    last.op = "check_scheduled_emails_status" =>
       \A r \in Selected(last.before) :
          /\ r \in last.polled
          /\ IF last.before[r].user \in last.failed /\ r \notin last.partial
             THEN /\ queue[r] = last.before[r]
                  /\ r \in Selected(queue)
             ELSE queue[r].status =
                     StatusCalledFor(last.seen[r], last.before[r], now)

C15_Witness ==
    /\ last.op = "check_scheduled_emails_status"
    /\ last.failed = {"alice"}
    /\ \E r \in last.polled :
          /\ last.before[r].user = "bob"
          /\ last.before[r].status = "Scheduled"
          /\ queue[r].status = "Cancelled"
    /\ \E r \in last.polled :
          /\ last.before[r].user = "alice"
          /\ last.seen[r] = "final"
          /\ r \notin last.partial
          /\ queue[r].status = "Scheduled"

\* The records a worker's request has read and not yet written.
InFlight(w) == IF inflight[w].pc = "idle" THEN {} ELSE inflight[w].recs

\* C16: cancel and the sweep's update of one record exclude each other: no
\* two requests are between their read and their write of the same record
\* at the same time.
C16_OneRequestPerRecord ==
    \A w1, w2 \in Workers :
       w1 # w2 => InFlight(w1) \cap InFlight(w2) = {}

\* C17: Sent and Cancelled are terminal: no cancel, reschedule or sweep
\* step changes the status or the scheduled_at of a record that is Sent or
\* Cancelled.
C17_TerminalStatuses ==
    [][\A r \in DOMAIN queue :
          (/\ queue[r].status \in {"Sent", "Cancelled"}
           /\ last'.op \in CancelOps \cup
                 {"reschedule_mail", "reschedule_email",
                  "check_scheduled_emails_status"})
          => /\ queue'[r].status = queue[r].status
             /\ queue'[r].scheduled_at = queue[r].scheduled_at]_vars

\* C18: a record has a submission_id exactly when it reads as scheduled or
\* its status is Sent or Cancelled.
C18_SubmissionIdIffStatus ==
    \A r \in DOMAIN queue :
       queue[r].status # "None" =>
          (queue[r].submission_id # NoId
              <=> \/ ReadsScheduled(queue[r])
                  \/ queue[r].status \in {"Sent", "Cancelled"})

\* C19: every submission request that carries a hold instant carries one
\* strictly later than the instant at which the request is made and no later
\* than that instant plus the maximum horizon.
C19_HoldWithinHorizon ==
    probe.fn = "request"
    => /\ probe.out > probe.at
       /\ probe.out <= probe.at + get_max_schedule_seconds

\* C20: a create or reschedule for a later instant that has run leaves the
\* record either reading as scheduled with an outstanding held submission
\* for that instant, or Failed with its error message set; never a record
\* that claims a scheduled send with no held submission behind it.
C20_ScheduledOrFailed ==
    (/\ last.op \in {"create_mail", "reschedule_mail"}
     /\ last.result = "ok"
     /\ last.req # None)
        => \/ /\ ReadsScheduled(queue[last.rec])
              /\ \E i \in Outstanding(last.rec) :
                    subs[i].hold = holduntil(last.req)
           \/ /\ queue[last.rec].status = "Failed"
              /\ queue[last.rec].error_message # ""

\* C21: at either cancel entry point, a cancel that reaches the past-due
\* check is refused as past due exactly when the record's scheduled_at lies
\* more than the grace window before the current instant.
C21_PastDueGrace ==
    (/\ last.op \in CancelOps
     /\ last.result \in {"ok", "PastDue"}
     /\ last.pre.scheduled_at # None)
        => (last.result = "PastDue"
               <=> now - last.pre.scheduled_at > CANCEL_GRACE_SECONDS)

\* C22: cancel acts only on a record that reads as scheduled: on a Draft or
\* Failed record it makes no remote call and does not set the status to
\* Cancelled, and on a record without scheduled_at it fails as not scheduled.
C22_CancelOnlyFromScheduled ==
    last.op \in CancelOps
        => /\ last.pre.status \in {"Draft", "Failed"}
                 => /\ last.result # "ok"
                    /\ last.rpcs = {}
                    /\ queue[last.rec].status = last.pre.status
           /\ (last.pre.scheduled_at = None
                 /\ last.result \notin {"NotFound", "PermissionDenied"})
                 => last.result = "NotScheduled"

\* C23: a cancel that passes its checks on a record with a submission_id
\* issues a remote cancel request for that submission: the request is sent,
\* and a submission that was still held is no longer pending after it.
C23_CancelRequestIssued ==
    (/\ last.op \in CancelOps
     /\ last.result = "ok"
     /\ last.pre.submission_id # NoId)
        => /\ "cancel" \in last.rpcs
           /\ last.pre.submission_id \in DOMAIN subs
                 => subs[last.pre.submission_id].undo # "pending"

RescheduleOps == {"reschedule_mail", "reschedule_email"}

\* C25: a reschedule is accepted only for a new instant the schedule policy
\* allows (present, parsable, not too soon, not too far); one refused with a
\* policy error makes no remote call and leaves the records as they were.
C25_RescheduleValidatesFirst ==
    [][(last'.op \in RescheduleOps /\ last' # last)
          => /\ last'.result = "ok"
                   => /\ last'.req # None
                      /\ last'.req >= now + MinLeadSeconds
                      /\ last'.req <= now + MaxHorizonSeconds
             /\ last'.result \in PolicyErrors
                   => /\ last'.rpcs = {}
                      /\ queue' = queue
                      /\ subs' = subs]_vars

\* C26: the horizon enforced is the maximum hold duration the server
\* advertises when there is one and the default otherwise, at the API policy
\* and at the validate hook alike.
C26_HorizonFromCapability ==
    probe.fn = "horizon"
        => LET horizon == IF probe.cap # None THEN probe.cap
                          ELSE get_max_schedule_seconds
               too_far == probe.arg.t > probe.at + horizon
           IN  /\ probe.out = "TooFar" <=> too_far
               /\ probe.hook <=> ~too_far

\* The step fails and changes neither the records nor the server.
Refused ==
    /\ last'.result # "ok"
    /\ last'.rpcs = {}
    /\ queue' = queue
    /\ subs' = subs

\* C27: a caller who is neither the owner of a record nor a System Manager
\* cannot cancel or reschedule it: each of the four handlers fails, makes no
\* remote call and leaves the record as it was.
C27_StrangerIsRefused ==
    [][\A c \in Callers, r \in RecIds :
          (/\ queue[r].status # "None"
           /\ queue[r].user # c
           /\ c \notin SystemManagers)
          => /\ cancel_scheduled_mail(c, r) => Refused
             /\ cancel_scheduled_email(c, r) => Refused
             /\ \A s \in Requests(now) :
                   /\ reschedule_email(c, r, s) => Refused
                   /\ \A o \in RescheduleOutcomes(c, r, s) :
                         reschedule_mail(c, r, s, o) => Refused
      ]_vars

C27_Witness ==
    /\ last.op = "reschedule_mail"
    /\ last.result = "PermissionDenied"
    /\ last.pre.scheduled_at # None
    /\ last.pre.status = "Submitted"
    /\ queue[last.rec] = last.pre

\* A call of apply_patches by w returns in this step.
Returns(w) ==
    /\ inflight[w].op = "apply_patches"
    /\ inflight'[w] = Idle

\* C28: whatever apply_patches calls ran, one after another or side by side,
\* email_create is wrapped at most once and the stored original is the
\* unpatched method; once the patch is applied, every call returns True
\* and patches nothing.
C28_PatchedOnce ==
    [][/\ patch'.email_create <= 1
       /\ patch'.original \in {None, 0}
       /\ patch'.applied => (patch'.email_create = 1 /\ patch'.original = 0)
       /\ \A w \in Workers :
             (patch.applied /\ Returns(w))
                => /\ patch'.ret[w] = "True"
                   /\ patch'.email_create = patch.email_create
                   /\ patch'.original = patch.original]_vars

C28_Witness ==
    /\ patch.applied
    /\ patch.email_create = 1
    /\ \A w \in Workers : patch.ret[w] = "True" /\ inflight[w] = Idle

BuildsRequest ==
    probe.fn \in {"_email_create_with_schedule", "email_create_scheduled"}

\* C29: a create-and-submit request holds exactly one submission call, it is
\* the last call of the request, and the message it submits is a
\* back-reference to a message created or imported by an earlier call of
\* the same request.
C29_CreateThenSubmit ==
    BuildsRequest
        => LET calls == probe.calls
               submits == {k \in DOMAIN calls :
                             calls[k].method = "EmailSubmission/set"}
           IN  /\ submits = {Len(calls)}
               /\ \A k \in submits :
                     \E j \in 1..(k - 1) :
                        /\ calls[j].method \in {"Email/set", "Email/import"}
                        /\ calls[k].emailId \in
                              {BackRef(c) : c \in calls[j].create}

C29_Witness ==
    /\ probe.fn = "_email_create_with_schedule"
    /\ probe.raw_message
    /\ probe.existing_id # None
    /\ Len(probe.calls) = 3
    /\ probe.calls[1].method = "Email/import"
    /\ probe.calls[3].method = "EmailSubmission/set"
    /\ probe.calls[3].emailId = BackRef(draft_ref(probe.creation_id))

\* C30: no two held submissions carry the same ENVID in their sender
\* envelope, a resubmission of the same record by reschedule included.
C30_EnvidPerAttempt ==
    \A i, j \in DOMAIN subs :
       (i # j /\ subs[i].hold # None /\ subs[j].hold # None)
          => ENVID(subs[i].msg) # ENVID(subs[j].msg)

\* C31: the rcptTo list of a scheduled submission has exactly one entry for
\* each recipient address of the message, and every entry asks for delay
\* and failure notifications.
C31_OneEntryPerRecipient ==
    probe.fn = "rcptTo"
        => LET emails == {probe.recipients[i].email :
                             i \in DOMAIN probe.recipients}
           IN  /\ \A e \in emails :
                     Cardinality({k \in DOMAIN probe.out :
                                     probe.out[k].email = e}) = 1
               /\ \A k \in DOMAIN probe.out :
                     /\ probe.out[k].email \in emails
                     /\ probe.out[k].NOTIFY = "DELAY,FAILURE"

\* C32: after a scheduled create accepted for a later instant, every
\* submission of the message on the server is held, and held at least until
\* the requested instant.
C32_NeverSubmittedUnheld ==
    (/\ last.op = "create_mail"
     /\ last.req # None
     /\ last.req > now)
        => \A i \in DOMAIN subs :
              subs[i].msg = last.rec
                 => /\ subs[i].hold # None
                    /\ subs[i].hold >= holduntil(last.req)

CreateOps == {"create_mail", "update_draft_mail"}

\* C33: create_mail and update_draft_mail report the status Scheduled only
\* when the submission made for the message carried a hold instant.
C33_ScheduledMeansHeld ==
    (last.op \in CreateOps /\ last.reported = "Scheduled")
        => /\ last.path = "scheduled"
           /\ \E i \in DOMAIN subs :
                 /\ subs[i].msg = last.rec
                 /\ subs[i].hold = holduntil(last.req)

\* C34: once a cancel was accepted for a record, no step makes a new
\* submission of that record's message.
C34_CancelledNeverResubmitted ==
    [][\A r \in RecIds :
          (/\ queue[r].status = "Cancelled"
           /\ queue[r].error_message
                 \in {"Cancelled by user", "Cancelled by user (JMAP)"})
          => \A i \in DOMAIN subs' :
                i \notin DOMAIN subs => subs'[i].msg # r]_vars

\* C35: whenever a record reads as scheduled, its scheduled_at is the hold
\* instant of every outstanding held submission of its message.
C35_LocalMatchesRemoteHold ==
    \A r \in RecIds :
       ReadsScheduled(queue[r])
          => \A i \in Outstanding(r) :
                subs[i].hold = holduntil(queue[r].scheduled_at)

FlagOps == {"create_mail", "update_draft_mail", "reschedule_mail"}

\* C36: the schedule flag is absent once create_mail, update_draft_mail or
\* reschedule_mail has returned or raised, so a send that was not requested
\* as scheduled stores no scheduled_at and carries no hold instant.
C36_FlagAbsentAfterwards ==
    /\ last.op \in FlagOps => flag = None
    /\ (last.op \in CreateOps /\ last.result = "ok" /\ last.req = None)
          => /\ queue[last.rec].scheduled_at = None
             /\ \A i \in DOMAIN subs :
                   subs[i].msg = last.rec => subs[i].hold = None

C36_Witness ==
    /\ last.op = "update_draft_mail"
    /\ last.result = "ok"
    /\ last.req # None
    /\ last.path = "scheduled"
    /\ queue[last.rec].scheduled_at = last.req
    /\ flag = None

\* The step records no schedule: the flag is absent afterwards, no
\* submission is made and the record written has no scheduled_at.
NothingScheduled ==
    /\ flag' = None
    /\ subs' = subs
    /\ last'.result = "ok"
          => /\ last'.req = None
             /\ queue'[last'.rec].scheduled_at = None

\* C37: saving a draft (create_mail with save_as_draft, update_draft_mail
\* without submit) sets no schedule flag, records no scheduled_at and makes
\* no held submission, whatever scheduled_at is supplied.
C37_DraftIsNeverScheduled ==
    [][\A c \in Senders, s \in Requests(now), found \in BOOLEAN :
          \A o \in CreateOutcomes(s, TRUE) :
             /\ create_mail(c, s, TRUE, o) => NothingScheduled
             /\ update_draft_mail(c, found, s, FALSE, o) => NothingScheduled
      ]_vars

C37_Witness ==
    /\ last.op = "update_draft_mail"
    /\ last.result = "ok"
    /\ last.given # None
    /\ queue[last.rec].status = "Draft"
    /\ queue[last.rec].scheduled_at = None
    /\ subs = <<>>

\* C38: for the same record, caller and clock the two cancel entry points
\* give the same verdict, and when both accept they leave the record with
\* the same status, scheduled_at and submission_id.
C38_CancelEntryPointsAgree ==
    \A r \in RecIds, c \in Callers :
       LET m == cancel_mail_checks(queue[r], c, now)
           e == cancel_email_checks(queue[r], c, now)
           dm == cancel_mail_db_set(queue[r])
           de == cancel_email_set_value(queue[r],
                                        queue[r].submission_id # NoId)
       IN  /\ m = e
           /\ m = "ok" => /\ dm.status = de.status
                          /\ dm.scheduled_at = de.scheduled_at
                          /\ dm.submission_id = de.submission_id

\* C39: in every state reached by apply_patches and remove_patches calls,
\* is_patched() is true exactly when the original email_create is stored
\* and the client's email_create is the wrapper.
C39_IsPatchedIffWrapped ==
    is_patched <=> (patch.original # None /\ patch.email_create = 1)

====
